---- MODULE Spec2Model ----
(***************************************************************************)
(* Model of divider.py: a straight-line OpenCV pipeline that loads         *)
(* test.png, whitens a dilated border-colour mask, binarises with Otsu,    *)
(* opens, inverts, writes morph.jpg, shows the result and waits for a key. *)
(*                                                                         *)
(* An image is a record [rows, cols, data] with data the samples in        *)
(* row-major order, as in the array's buffer: the sample of <<row, col>>   *)
(* is data[row * cols + col + 1].  A sample is a <<b, g, r>> triple in a   *)
(* 3-channel image and a number 0..255 in a single-channel one.            *)
(***************************************************************************)
EXTENDS Integers, Sequences, FiniteSets, TLC

VARIABLES
    pc,        \* the statement about to run
    testPng,   \* contents of the input file test.png, or NoFile
    img,       \* divider.py `img`
    mask,      \* divider.py `mask`
    kernel,    \* divider.py `kernel`
    gray,      \* divider.py `gray`
    thresh,    \* divider.py `thresh`
    morph,     \* divider.py `morph`
    morphJpg,  \* the output file morph.jpg, or NoFile
    window,    \* the image shown in window "morph", or None
    imwriteRet, \* the value cv2.imwrite returned (discarded by the program)
    key,       \* the key presses cv2.waitKey has received
    log        \* the statements executed so far, in order

vars == <<pc, testPng, img, mask, kernel, gray, thresh, morph, morphJpg, imwriteRet,
          window, key, log>>

\* Python's None, and a path at which no readable file exists.
None == [none |-> TRUE]
NoFile == [nofile |-> TRUE]

----------------------------------------------------------------------------
(* Bounds of the explored inputs *)

MaxRows == 2
MaxCols == 18

----------------------------------------------------------------------------
(* Program constants *)

lower == <<0, 80, 110>>
upper == <<0, 120, 150>>
KSizeDilate == 15
KSizeOpen == 17
White == <<255, 255, 255>>

----------------------------------------------------------------------------
(* Images *)

Pixels(rows, cols) == (0..(rows - 1)) \X (0..(cols - 1))

PixelsOf(m) == Pixels(m.rows, m.cols)

\* The <<row, col>> of the i-th sample of a buffer with the given row length.
Pos(i, cols) == <<(i - 1) \div cols, (i - 1) % cols>>

\* The sample of m at p = <<row, col>>.
At(m, p) == m.data[p[1] * m.cols + p[2] + 1]

\* The rows x cols grid whose sample at p is f[p].
MkImage(rows, cols, f) ==
    [rows |-> rows, cols |-> cols, data |-> [i \in 1..(rows * cols) |-> f[Pos(i, cols)]]]

InBlock(p, r0, c0, h, w) ==
    /\ p[1] >= r0 /\ p[1] < r0 + h
    /\ p[2] >= c0 /\ p[2] < c0 + w

\* A rows x cols image of colour bg holding an h x w block of colour fg
\* whose top-left pixel is <<r0, c0>>.
BlockImage(rows, cols, bg, fg, r0, c0, h, w) ==
    LET f == [p \in Pixels(rows, cols) |->
                IF InBlock(p, r0, c0, h, w) THEN fg ELSE bg]
    IN MkImage(rows, cols, f)

Transpose(m) ==
    LET f == [p \in Pixels(m.cols, m.rows) |->
                At(m, <<p[2], p[1]>>)]
    IN MkImage(m.cols, m.rows, f)

----------------------------------------------------------------------------
(* cv2.inRange: 255 where every channel lies in lower..upper inclusive,    *)
(* 0 elsewhere; the mask has the size of the source.  A None source is     *)
(* rejected by the binding with an exception (see InRangeStep).            *)

\* Variant: a pixel is selected when any one channel lies in its range.
InBoundsAny(px, lo, hi) == \E ch \in 1..3 : lo[ch] <= px[ch] /\ px[ch] <= hi[ch]

\* Variant: the range excludes its end points.
InBoundsStrict(px, lo, hi) == \A ch \in 1..3 : lo[ch] < px[ch] /\ px[ch] < hi[ch]

InBounds(px, lo, hi) == \A ch \in 1..3 : lo[ch] <= px[ch] /\ px[ch] <= hi[ch]

InRange(src, lo, hi) ==
    LET f == [p \in Pixels(src.rows, src.cols) |->
                IF InBounds(At(src, p), lo, hi) THEN 255 ELSE 0]
    IN MkImage(src.rows, src.cols, f)

----------------------------------------------------------------------------
(* cv2.getStructuringElement(MORPH_RECT, (k, k)): a k x k element of ones. *)
(* The morphology operators anchor it at its centre, and apply a           *)
(* rectangular element as a row pass followed by a column pass.  Where the *)
(* element reaches outside the image the default constant border supplies  *)
(* the operator's neutral value (0 for a maximum, 255 for a minimum).      *)

GetStructuringElement(k) == [rows |-> k, cols |-> k]

Anchor(k) == <<k.rows \div 2, k.cols \div 2>>

MaxOf(S) == CHOOSE v \in S : \A u \in S : u <= v
MinOf(S) == CHOOSE v \in S : \A u \in S : v <= u

Pick(op, S) == IF op = "max" THEN MaxOf(S) ELSE MinOf(S)

\* The indices of 0..(n - 1) under an element of the given size and anchor
\* placed on index i.
Span(i, size, anchor, n) ==
    (IF i - anchor < 0 THEN 0 ELSE i - anchor) ..
    (IF i - anchor + size - 1 > n - 1 THEN n - 1 ELSE i - anchor + size - 1)

Overhangs(i, size, anchor, n) == i - anchor < 0 \/ i - anchor + size - 1 > n - 1

\* A grid with its samples computed once (f @@ <<>> is f, tabulated).
Stored(m) == [rows |-> m.rows, cols |-> m.cols, data |-> m.data @@ <<>>]

RowPass(m, k, border, op) ==
    LET f == [p \in Pixels(m.rows, m.cols) |->
                Pick(op, {At(m, <<p[1], c>>) : c \in Span(p[2], k.cols, Anchor(k)[2], m.cols)}
                     \cup (IF Overhangs(p[2], k.cols, Anchor(k)[2], m.cols)
                           THEN {border} ELSE {}))]
    IN MkImage(m.rows, m.cols, f)

ColPass(m, k, border, op) ==
    LET f == [p \in Pixels(m.rows, m.cols) |->
                Pick(op, {At(m, <<r, p[2]>>) : r \in Span(p[1], k.rows, Anchor(k)[1], m.rows)}
                     \cup (IF Overhangs(p[1], k.rows, Anchor(k)[1], m.rows)
                           THEN {border} ELSE {}))]
    IN MkImage(m.rows, m.cols, f)

\* MORPH_ERODE: minimum over the element.
Erode(m, k) == ColPass(Stored(RowPass(m, k, 255, "min")), k, 255, "min")

\* Variant: the output grows by the element's overhang ("full" filtering).
DilatePadded(m, k) ==
    LET f == [p \in Pixels(m.rows + k.rows - 1, m.cols + k.cols - 1) |->
                LET q == <<p[1] - Anchor(k)[1], p[2] - Anchor(k)[2]>>
                IN IF q[1] >= 0 /\ q[1] < m.rows /\ q[2] >= 0 /\ q[2] < m.cols
                   THEN At(m, q) ELSE 0]
        padded == Stored(MkImage(m.rows + k.rows - 1, m.cols + k.cols - 1, f))
    IN ColPass(Stored(RowPass(padded, k, 0, "max")), k, 0, "max")

\* Variant: the mask is grown with an element two samples larger.
DilateWide(m, k) ==
    LET k2 == [rows |-> k.rows + 2, cols |-> k.cols + 2]
    IN ColPass(Stored(RowPass(m, k2, 0, "max")), k2, 0, "max")

\* Variant: MORPH_ERODE passed in place of MORPH_DILATE.
DilateAsErode(m, k) == Erode(m, k)

\* MORPH_DILATE: maximum over the element.
Dilate(m, k) == ColPass(Stored(RowPass(m, k, 0, "max")), k, 0, "max")

\* MORPH_OPEN: erosion followed by dilation with the same element.
MorphOpen(m, k) == Dilate(Stored(Erode(m, k)), k)

----------------------------------------------------------------------------
(* img[mask==255] = (255,255,255): in-place overwrite of the selected      *)
(* pixels, every other pixel untouched.                                    *)

Recolor(src, msk) ==
    LET f == [p \in Pixels(src.rows, src.cols) |->
                IF At(msk, p) = 255 THEN White ELSE At(src, p)]
    IN MkImage(src.rows, src.cols, f)

----------------------------------------------------------------------------
(* cv2.cvtColor(img, COLOR_BGR2GRAY): 8-bit fixed-point luma               *)
(* (0.114 B + 0.587 G + 0.299 R) with 15 fractional bits, rounded.         *)

GrayOf(px) == (px[1] * 3735 + px[2] * 19235 + px[3] * 9798 + 16384) \div 32768

CvtColorBGR2GRAY(src) ==
    LET f == [p \in Pixels(src.rows, src.cols) |->
                GrayOf(At(src, p))]
    IN MkImage(src.rows, src.cols, f)

----------------------------------------------------------------------------
(* Exact arithmetic for Otsu's criterion.  The products it compares exceed *)
(* the model checker's integers, so naturals are held as little-endian     *)
(* digit sequences in base 10000, without leading zero digits.             *)

RECURSIVE BigFromNat(_)
BigFromNat(n) == IF n = 0 THEN <<>> ELSE <<n % 10000>> \o BigFromNat(n \div 10000)

RECURSIVE BigTrim(_)
BigTrim(a) ==
    IF a = <<>> THEN a
    ELSE IF a[Len(a)] = 0 THEN BigTrim(SubSeq(a, 1, Len(a) - 1)) ELSE a

RECURSIVE BigColSum(_, _, _, _)
BigColSum(a, b, k, i) ==
    IF i > Len(a) THEN 0
    ELSE (IF k + 1 - i >= 1 /\ k + 1 - i <= Len(b) THEN a[i] * b[k + 1 - i] ELSE 0)
         + BigColSum(a, b, k, i + 1)

RECURSIVE BigMulCols(_, _, _, _)
BigMulCols(a, b, k, carry) ==
    IF k > Len(a) + Len(b) THEN <<>>
    ELSE LET s == carry + BigColSum(a, b, k, 1)
         IN <<s % 10000>> \o BigMulCols(a, b, k + 1, s \div 10000)

BigMul(a, b) == BigTrim(BigMulCols(a, b, 1, 0))

RECURSIVE BigCmpFrom(_, _, _)
BigCmpFrom(a, b, i) ==
    IF i = 0 THEN 0
    ELSE IF a[i] > b[i] THEN 1
    ELSE IF a[i] < b[i] THEN -1
    ELSE BigCmpFrom(a, b, i - 1)

\* 1, 0 or -1 as a is greater than, equal to or less than b.
BigCmp(a, b) ==
    IF Len(a) > Len(b) THEN 1
    ELSE IF Len(a) < Len(b) THEN -1
    ELSE BigCmpFrom(a, b, Len(a))

RECURSIVE BigSubFrom(_, _, _, _)
BigSubFrom(a, b, i, borrow) ==
    IF i > Len(a) THEN <<>>
    ELSE LET d == a[i] - (IF i <= Len(b) THEN b[i] ELSE 0) - borrow
         IN IF d < 0 THEN <<d + 10000>> \o BigSubFrom(a, b, i + 1, 1)
            ELSE <<d>> \o BigSubFrom(a, b, i + 1, 0)

\* |a - b|
BigAbsDiff(a, b) ==
    IF BigCmp(a, b) >= 0 THEN BigTrim(BigSubFrom(a, b, 1, 0))
    ELSE BigTrim(BigSubFrom(b, a, 1, 0))

----------------------------------------------------------------------------
(* cv2.threshold(gray, 0, 255, THRESH_OTSU): the threshold is the first    *)
(* histogram bin i of 0..255 that maximises the between-class variance     *)
(*     sigma(i) = q1 q2 (mu1 - mu2)^2                                      *)
(* of the classes {<= i} and {> i}; bins that leave a class empty are      *)
(* skipped, and 0 is returned when no bin qualifies.  With n1, s1 the      *)
(* count and sum of the samples <= i and N, S those of all samples,        *)
(*     sigma(i) = (s1 N - S n1)^2 / (N^2 n1 (N - n1)),                     *)
(* so two bins are compared by cross-multiplication.  An empty bin leaves  *)
(* n1 and s1, hence sigma, unchanged and never replaces the maximum, so    *)
(* the scan visits the occupied bins only, in increasing order.            *)

Levels(g) == {At(g, p) : p \in PixelsOf(g)}

Histogram(g, i) == Cardinality({p \in PixelsOf(g) : At(g, p) = i})

RECURSIVE WeightedSum(_, _)
WeightedSum(g, bins) ==
    IF bins = {} THEN 0
    ELSE LET i == MinOf(bins)
         IN i * Histogram(g, i) + WeightedSum(g, bins \ {i})

\* The criterion of a bin, as the fraction num / den.
OtsuSigma(n1, s1, N, S) ==
    LET d == BigAbsDiff(BigMul(BigFromNat(s1), BigFromNat(N)),
                        BigMul(BigFromNat(S), BigFromNat(n1)))
    IN [num |-> BigMul(d, d), den |-> BigFromNat(n1 * (N - n1))]

SigmaGreater(x, y) == BigCmp(BigMul(x.num, y.den), BigMul(y.num, x.den)) > 0

RECURSIVE OtsuScan(_, _, _, _, _, _, _, _)
OtsuScan(g, bins, n1, s1, N, S, maxSigma, maxVal) ==
    IF bins = {} THEN maxVal
    ELSE LET i == MinOf(bins)
             m1 == n1 + Histogram(g, i)
             t1 == s1 + i * Histogram(g, i)
         IN IF m1 = N
            THEN OtsuScan(g, bins \ {i}, m1, t1, N, S, maxSigma, maxVal)
            ELSE LET sigma == OtsuSigma(m1, t1, N, S)
                 IN IF SigmaGreater(sigma, maxSigma)
                    THEN OtsuScan(g, bins \ {i}, m1, t1, N, S, sigma, i)
                    ELSE OtsuScan(g, bins \ {i}, m1, t1, N, S, maxSigma, maxVal)

GetThreshVal_Otsu(g) ==
    OtsuScan(g, Levels(g), 0, 0, g.rows * g.cols, WeightedSum(g, Levels(g)),
             [num |-> <<>>, den |-> <<1>>], 0)

\* Variant: THRESH_TOZERO, which keeps the samples above t as they are.
ThresholdToZero(g, t) ==
    LET f == [p \in Pixels(g.rows, g.cols) |->
                IF At(g, p) > t THEN At(g, p) ELSE 0]
    IN MkImage(g.rows, g.cols, f)

\* THRESH_BINARY with maxval 255: 255 where the sample exceeds t, else 0.
ThresholdBinary(g, t) ==
    LET f == [p \in Pixels(g.rows, g.cols) |->
                IF At(g, p) > t THEN 255 ELSE 0]
    IN MkImage(g.rows, g.cols, f)

ThresholdOtsu(g) == ThresholdBinary(g, GetThreshVal_Otsu(g))

----------------------------------------------------------------------------
(* morph = 255 - morph: element-wise on an 8-bit array.                    *)

\* Variant: the inversion is left out.
InvertNone(m) == m

Invert(m) ==
    LET f == [p \in Pixels(m.rows, m.cols) |->
                (255 - At(m, p)) % 256]
    IN MkImage(m.rows, m.cols, f)

----------------------------------------------------------------------------
(* The explored contents of test.png.  cv2.imread with its default flag    *)
(* yields an 8-bit 3-channel BGR image of the file's size, or None when    *)
(* the file is missing or cannot be decoded.                               *)

Black == <<0, 0, 0>>
Border == <<0, 100, 130>>
LowerEdge == <<0, 80, 110>>
UpperEdge == <<0, 120, 150>>
BelowEdge == <<0, 79, 110>>
AboveEdge == <<0, 120, 151>>
OffBlue == <<1, 100, 130>>
Far == <<200, 30, 220>>

\* <<background, block, speck>> colours of an explored image.
ColourTriples ==
    { <<Black, Border, Black>>, <<Far, LowerEdge, UpperEdge>>,
      <<Black, BelowEdge, AboveEdge>>, <<Far, OffBlue, Black>>,
      <<White, Far, Border>>, <<Black, White, Far>> }

\* A BlockImage whose last pixel is a speck of a third colour.
SpeckImage(rows, cols, c, r0, c0, h, w) ==
    LET f == [p \in Pixels(rows, cols) |->
                IF p = <<rows - 1, cols - 1>> THEN c[3]
                ELSE IF InBlock(p, r0, c0, h, w) THEN c[2] ELSE c[1]]
    IN MkImage(rows, cols, f)

Widths == {1, 2, 3, MaxCols \div 2, MaxCols}

\* <<rows, cols, r0, c0, h, w>> of a block that fits its image.
BlockParams ==
    { q \in (1..MaxRows) \X Widths \X (0..(MaxRows - 1)) \X (0..(MaxCols - 1))
            \X (1..MaxRows) \X (1..MaxCols) :
        /\ q[3] + q[5] <= q[1]
        /\ q[4] + q[6] <= q[2] }

WideImages ==
    { SpeckImage(q[1], q[2], c, q[3], q[4], q[5], q[6]) :
        q \in BlockParams, c \in ColourTriples }

TallImages == { Transpose(m) : m \in {n \in WideImages : n.rows = 1} }

\* The synthetic scenario: 100 x 100, all black, a 20 x 20 block of the
\* border colour in a corner (the top-left one, and the bottom-right one).
ScenarioTopLeft == BlockImage(100, 100, Black, Border, 0, 0, 20, 20)
ScenarioBottomRight == BlockImage(100, 100, Black, Border, 80, 80, 20, 20)
ScenarioImages == {ScenarioTopLeft, ScenarioBottomRight}

InputImages == WideImages \cup TallImages \cup ScenarioImages

FileContents == InputImages \cup {NoFile}

Keys == {13, 27}

----------------------------------------------------------------------------
(* The program, one action per statement.                                  *)

Init ==
    /\ pc = "imread"
    /\ testPng \in FileContents
    /\ img = None /\ mask = None /\ kernel = None /\ gray = None
    /\ thresh = None /\ morph = None
    /\ morphJpg = NoFile
    /\ imwriteRet = <<>>
    /\ window = None
    /\ key = <<>>
    /\ log = <<>>

\* line 5: img = cv2.imread('test.png')
Imread ==
    /\ pc = "imread"
    /\ img' = IF testPng = NoFile THEN None ELSE testPng
    /\ pc' = "inRange"
    /\ log' = Append(log, "imread")
    /\ UNCHANGED <<testPng, mask, kernel, gray, thresh, morph, morphJpg, imwriteRet, window, key>>

\* Variant: a None image is taken for an empty one and the run goes on.
InRangeStepLenient ==
    /\ pc = "inRange"
    /\ mask' = IF img = None THEN [rows |-> 0, cols |-> 0, data |-> <<>>]
               ELSE InRange(img, lower, upper)
    /\ pc' = "kernel15"
    /\ log' = Append(log, "inRange")
    /\ UNCHANGED <<testPng, img, kernel, gray, thresh, morph, morphJpg, imwriteRet, window, key>>

\* line 12: mask = cv2.inRange(img, lower, upper); raises on a None image,
\* and the uncaught exception ends the process.
InRangeStep ==
    /\ pc = "inRange"
    /\ IF img = None
       THEN /\ pc' = "fault"
            /\ UNCHANGED <<mask, log>>
       ELSE /\ mask' = InRange(img, lower, upper)
            /\ pc' = "kernel15"
            /\ log' = Append(log, "inRange")
    /\ UNCHANGED <<testPng, img, kernel, gray, thresh, morph, morphJpg, imwriteRet, window, key>>

\* line 15: kernel = cv2.getStructuringElement(cv2.MORPH_RECT, (15, 15))
Kernel15 ==
    /\ pc = "kernel15"
    /\ kernel' = GetStructuringElement(KSizeDilate)
    /\ pc' = "dilate"
    /\ log' = Append(log, "kernel15")
    /\ UNCHANGED <<testPng, img, mask, gray, thresh, morph, morphJpg, imwriteRet, window, key>>

\* line 16: mask = cv2.morphologyEx(mask, cv2.MORPH_DILATE, kernel)
DilateStep ==
    /\ pc = "dilate"
    /\ mask' = Dilate(mask, kernel)
    /\ pc' = "recolor"
    /\ log' = Append(log, "dilate")
    /\ UNCHANGED <<testPng, img, kernel, gray, thresh, morph, morphJpg, imwriteRet, window, key>>

\* line 19: img[mask==255] = (255,255,255)
RecolorStep ==
    /\ pc = "recolor"
    /\ img' = Recolor(img, mask)
    /\ pc' = "cvtColor"
    /\ log' = Append(log, "recolor")
    /\ UNCHANGED <<testPng, mask, kernel, gray, thresh, morph, morphJpg, imwriteRet, window, key>>

\* line 22: gray = cv2.cvtColor(img, cv2.COLOR_BGR2GRAY)
CvtColorStep ==
    /\ pc = "cvtColor"
    /\ gray' = CvtColorBGR2GRAY(img)
    /\ pc' = "threshold"
    /\ log' = Append(log, "cvtColor")
    /\ UNCHANGED <<testPng, img, mask, kernel, thresh, morph, morphJpg, imwriteRet, window, key>>

\* line 25: thresh = cv2.threshold(gray, 0, 255, cv2.THRESH_OTSU)[1]
ThresholdStep ==
    /\ pc = "threshold"
    /\ thresh' = ThresholdOtsu(gray)
    /\ pc' = "kernel17"
    /\ log' = Append(log, "threshold")
    /\ UNCHANGED <<testPng, img, mask, kernel, gray, morph, morphJpg, imwriteRet, window, key>>

\* line 28: kernel = cv2.getStructuringElement(cv2.MORPH_RECT, (17,17))
Kernel17 ==
    /\ pc = "kernel17"
    /\ kernel' = GetStructuringElement(KSizeOpen)
    /\ pc' = "open"
    /\ log' = Append(log, "kernel17")
    /\ UNCHANGED <<testPng, img, mask, gray, thresh, morph, morphJpg, imwriteRet, window, key>>

\* line 29: morph = cv2.morphologyEx(thresh, cv2.MORPH_OPEN, kernel)
OpenStep ==
    /\ pc = "open"
    /\ morph' = MorphOpen(thresh, kernel)
    /\ pc' = "invert"
    /\ log' = Append(log, "open")
    /\ UNCHANGED <<testPng, img, mask, kernel, gray, thresh, morphJpg, imwriteRet, window, key>>

\* line 30: morph = 255 - morph
InvertStep ==
    /\ pc = "invert"
    /\ morph' = Invert(morph)
    /\ pc' = "imwrite"
    /\ log' = Append(log, "invert")
    /\ UNCHANGED <<testPng, img, mask, kernel, gray, thresh, morphJpg, imwriteRet, window, key>>

\* Variant: imwrite reports success without the file reaching the disk.
ImwriteLost ==
    /\ pc = "imwrite"
    /\ imwriteRet' = <<TRUE>>
    /\ pc' = "imshow"
    /\ log' = Append(log, "imwrite")
    /\ UNCHANGED <<testPng, img, mask, kernel, gray, thresh, morph, morphJpg, window, key>>

\* line 33: cv2.imwrite("morph.jpg", morph).  The file receives a JPEG
\* encoding of morph (lossy, so only its size is recorded); when the path
\* cannot be written imwrite returns False, which the program ignores.
Imwrite ==
    /\ pc = "imwrite"
    /\ \E writable \in BOOLEAN :
          /\ morphJpg' = IF writable THEN [rows |-> morph.rows, cols |-> morph.cols]
                         ELSE morphJpg
          /\ imwriteRet' = <<writable>>
    /\ pc' = "imshow"
    /\ log' = Append(log, "imwrite")
    /\ UNCHANGED <<testPng, img, mask, kernel, gray, thresh, morph, window, key>>

\* line 35: cv2.imshow("morph", morph)
Imshow ==
    /\ pc = "imshow"
    /\ window' = morph
    /\ pc' = "waitKey"
    /\ log' = Append(log, "imshow")
    /\ UNCHANGED <<testPng, img, mask, kernel, gray, thresh, morph, morphJpg, imwriteRet, key>>

\* Variant: the wait has a timeout and returns without a key press.
WaitKeyTimeout ==
    /\ pc = "waitKey"
    /\ \E pressed \in BOOLEAN :
          key' = IF pressed THEN Append(key, 13) ELSE key
    /\ pc' = "exit"
    /\ log' = Append(log, "waitKey")
    /\ UNCHANGED <<testPng, img, mask, kernel, gray, thresh, morph, morphJpg, imwriteRet, window>>

\* line 36: cv2.waitKey(0) returns only when a key is pressed; the script
\* then runs off its end and the process exits.
WaitKey ==
    /\ pc = "waitKey"
    /\ \E k \in Keys : key' = Append(key, k)
    /\ pc' = "exit"
    /\ log' = Append(log, "waitKey")
    /\ UNCHANGED <<testPng, img, mask, kernel, gray, thresh, morph, morphJpg, imwriteRet, window>>

Next ==
    \/ Imread
    \/ InRangeStep
    \/ Kernel15
    \/ DilateStep
    \/ RecolorStep
    \/ CvtColorStep
    \/ ThresholdStep
    \/ Kernel17
    \/ OpenStep
    \/ InvertStep
    \/ Imwrite
    \/ Imshow
    \/ WaitKey

Spec == Init /\ [][Next]_vars

----------------------------------------------------------------------------
(* Vocabulary of the properties, stated with the numbers of the            *)
(* specification rather than with the operators of the program.            *)

Loaded == testPng # NoFile

\* First channel exactly 0, second in 80..120, third in 110..150.
InBorderRange(px) ==
    /\ px[1] = 0
    /\ px[2] >= 80 /\ px[2] <= 120
    /\ px[3] >= 110 /\ px[3] <= 150

\* Every channel below its lower or above its upper bound.
StrictlyOutside(px) ==
    /\ px[1] > 0
    /\ px[2] < 80 \/ px[2] > 120
    /\ px[3] < 110 \/ px[3] > 150

\* Some pixel at most 7 rows and 7 columns from p, inside the image, has the
\* border colour in the loaded image.
NearBorderPixel(p) ==
    LET r0 == IF p[1] < 7 THEN 0 ELSE p[1] - 7
        r1 == IF p[1] + 7 > testPng.rows - 1 THEN testPng.rows - 1 ELSE p[1] + 7
        c0 == IF p[2] < 7 THEN 0 ELSE p[2] - 7
        c1 == IF p[2] + 7 > testPng.cols - 1 THEN testPng.cols - 1 ELSE p[2] + 7
    IN \E r \in r0..r1, c \in c0..c1 : InBorderRange(At(testPng, <<r, c>>))

NoBorderPixel == \A p \in PixelsOf(testPng) : ~InBorderRange(At(testPng, p))

SameSize(g) ==
    g # None => /\ g.rows = testPng.rows
                /\ g.cols = testPng.cols
                /\ Len(g.data) = testPng.rows * testPng.cols

Binary(g) == g # None => \A i \in 1..Len(g.data) : g.data[i] \in {0, 255}

OutputReady == pc \in {"imwrite", "imshow", "waitKey", "exit"}

StatementOrder ==
    << "imread", "inRange", "kernel15", "dilate", "recolor", "cvtColor", "threshold",
       "kernel17", "open", "invert", "imwrite", "imshow", "waitKey" >>

IsPrefix(a, b) == Len(a) <= Len(b) /\ a = SubSeq(b, 1, Len(a))

----------------------------------------------------------------------------
(* C1: for a loaded W x H image, the range mask, the dilated mask, the     *)
(* recoloured image, the grayscale image, the thresholded image, the       *)
(* opened and the inverted image, and with them what is written and shown, *)
(* all have width W and height H.                                          *)
C1_SameDimensions ==
    Loaded =>
        /\ SameSize(img) /\ SameSize(mask) /\ SameSize(gray)
        /\ SameSize(thresh) /\ SameSize(morph) /\ SameSize(window)
        /\ morphJpg # NoFile =>
               morphJpg.rows = testPng.rows /\ morphJpg.cols = testPng.cols

C1_Witness ==
    /\ pc = "exit" /\ Loaded
    /\ testPng.rows = 2 /\ testPng.cols > KSizeOpen
    /\ morph.rows = 2 /\ morph.cols = testPng.cols
    /\ mask.cols = testPng.cols

----------------------------------------------------------------------------
(* C2 as stated: a pixel strictly outside [lower, upper] on all three      *)
(* channels keeps its loaded value through the border-isolation stage.     *)
C2_OutsideNeverAltered ==
    (Loaded /\ img # None) =>
        \A p \in PixelsOf(testPng) :
            StrictlyOutside(At(testPng, p)) => At(img, p) = At(testPng, p)

(* C2 amended: a pixel strictly outside [lower, upper] on all three        *)
(* channels that has no border-coloured pixel within 7 rows and 7 columns  *)
(* keeps its loaded value through the border-isolation stage.              *)
C2_OutsideAwayFromBorderKept ==
    (Loaded /\ img # None) =>
        \A p \in PixelsOf(testPng) :
            (StrictlyOutside(At(testPng, p)) /\ At(img, p) # At(testPng, p))
                => NearBorderPixel(p)

C2_Witness ==
    /\ pc = "cvtColor" /\ Loaded
    /\ \E p \in PixelsOf(testPng) :
          /\ StrictlyOutside(At(testPng, p)) /\ ~NearBorderPixel(p)
          /\ At(img, p) = At(testPng, p) /\ At(img, p) # White
    /\ \E q \in PixelsOf(testPng) :
          /\ StrictlyOutside(At(testPng, q)) /\ At(img, q) = White /\ At(testPng, q) # White

----------------------------------------------------------------------------
(* C3: when test.png is missing or unreadable the load yields None, the    *)
(* next statement faults on it, and the run neither writes morph.jpg nor   *)
(* shows the window.                                                       *)
C3_MissingInputFaults ==
    ~Loaded =>
        /\ pc \in {"imread", "inRange", "fault"}
        /\ pc # "imread" => img = None
        /\ morphJpg = NoFile /\ imwriteRet = <<>> /\ window = None
        /\ \A i \in 1..Len(log) : log[i] \notin {"imwrite", "imshow", "waitKey"}

C3_Witness == pc = "fault" /\ ~Loaded /\ img = None /\ log = <<"imread">>

----------------------------------------------------------------------------
(* C4: the thresholded image, its opening and the inverted image handed to *)
(* the write and display steps hold only the values 0 and 255.             *)
C4_OutputBinary == Binary(thresh) /\ Binary(morph) /\ Binary(window)

C4_Witness ==
    /\ pc = "imwrite"
    /\ \E i \in 1..Len(gray.data) : gray.data[i] \notin {0, 255}
    /\ \E i \in 1..Len(morph.data) : morph.data[i] = 0
    /\ \E i \in 1..Len(morph.data) : morph.data[i] = 255

----------------------------------------------------------------------------
(* C5: the process exits only from the key-press wait and only on a key    *)
(* press; nothing but a key press takes it out of the wait.                *)
C5_ExitOnlyOnKey ==
    [][ /\ (pc' = "exit" /\ pc # "exit") => (pc = "waitKey" /\ Len(key') = Len(key) + 1)
        /\ (pc = "waitKey" /\ pc' # "waitKey") => (pc' = "exit" /\ Len(key') = Len(key) + 1)
        /\ (pc # "waitKey") => key' = key ]_vars

C5_Witness == pc = "exit" /\ Len(key) = 1 /\ window = morph /\ key[1] \in Keys

----------------------------------------------------------------------------
(* C6: when no pixel of the input has the border colour, the recolour step *)
(* changes no pixel and the output handed to the write step, which is the  *)
(* one shown, is 255 - open(otsu(gray(input))) of the unmodified input.    *)
C6_NoBorderPassThrough ==
    (Loaded /\ NoBorderPixel) =>
        /\ img # None => img = testPng
        /\ mask # None => \A p \in PixelsOf(testPng) : At(mask, p) = 0
        /\ pc = "imwrite" =>
              morph = Invert(MorphOpen(ThresholdOtsu(CvtColorBGR2GRAY(testPng)),
                                       GetStructuringElement(17)))
        /\ window # None => window = morph

C6_Witness ==
    /\ pc = "imwrite" /\ Loaded /\ NoBorderPixel
    /\ img = testPng
    /\ \E i \in 1..Len(morph.data) : morph.data[i] = 0
    /\ \E i \in 1..Len(morph.data) : morph.data[i] = 255
    /\ \E p \in PixelsOf(testPng) : At(testPng, p)[1] = 0

----------------------------------------------------------------------------
(* C7: on the all-black 100 x 100 input with a 20 x 20 border-coloured     *)
(* block in a corner, the range test marks exactly the block, dilation     *)
(* grows the mark by 7 pixels into the image, the marked pixels become     *)
(* white, and no pixel of the block's corner is white in the final output. *)
ScenarioBlock(p) ==
    IF testPng = ScenarioTopLeft THEN p[1] <= 19 /\ p[2] <= 19
    ELSE p[1] >= 80 /\ p[2] >= 80

ScenarioGrown(p) ==
    IF testPng = ScenarioTopLeft THEN p[1] <= 26 /\ p[2] <= 26
    ELSE p[1] >= 73 /\ p[2] >= 73

C7_ScenarioBlockRemoved ==
    (Loaded /\ testPng \in ScenarioImages) =>
        /\ pc = "kernel15" =>
              \A p \in PixelsOf(testPng) : At(mask, p) = 255 <=> ScenarioBlock(p)
        /\ pc = "recolor" =>
              \A p \in PixelsOf(testPng) : At(mask, p) = 255 <=> ScenarioGrown(p)
        /\ pc = "cvtColor" =>
              \A p \in PixelsOf(testPng) :
                  At(img, p) = IF ScenarioGrown(p) THEN White ELSE Black
        /\ OutputReady =>
              \A p \in PixelsOf(testPng) : ScenarioBlock(p) => At(morph, p) = 0

C7_Witness ==
    /\ pc = "exit" /\ testPng = ScenarioTopLeft
    /\ At(img, <<26, 26>>) = White /\ At(img, <<27, 27>>) = Black
    /\ At(morph, <<0, 0>>) = 0 /\ At(morph, <<19, 19>>) = 0
    /\ At(morph, <<99, 99>>) = 255

----------------------------------------------------------------------------
(* C8: dilation with the 15 x 15 element never clears a mask pixel: every  *)
(* pixel that is 255 before the dilation is 255 after it.                  *)
C8_DilationSuperset ==
    [][ (pc = "dilate" /\ pc' = "recolor") =>
            \A p \in PixelsOf(mask) : At(mask, p) = 255 => At(mask', p) = 255 ]_vars

C8_Witness ==
    /\ pc = "recolor" /\ Loaded
    /\ InBorderRange(At(testPng, <<testPng.rows - 1, testPng.cols - 1>>))
    /\ At(mask, <<testPng.rows - 1, testPng.cols - 1>>) = 255
    /\ At(mask, <<0, 0>>) = 0

----------------------------------------------------------------------------
(* C9: after the border-isolation stage a pixel has been overwritten with  *)
(* (255,255,255) exactly when some pixel at most 7 rows and 7 columns away *)
(* has first channel 0, second channel in 80..120 and third channel in     *)
(* 110..150; every other pixel keeps its loaded value.                     *)
C9_RecolourExactlyNearBorder ==
    (pc = "cvtColor") =>
        \A p \in PixelsOf(testPng) :
            LET near == NearBorderPixel(p)
            IN /\ At(mask, p) = 255 <=> near
               /\ At(img, p) = IF near THEN White ELSE At(testPng, p)

C9_Witness ==
    /\ pc = "cvtColor"
    /\ testPng.cols > 8
    /\ InBorderRange(At(testPng, <<0, 0>>))
    /\ ~InBorderRange(At(testPng, <<0, 7>>)) /\ At(testPng, <<0, 7>>) # White
    /\ At(img, <<0, 7>>) = White
    /\ At(img, <<0, 8>>) = At(testPng, <<0, 8>>) /\ At(img, <<0, 8>>) # White

----------------------------------------------------------------------------
(* C10: the statements run once each in program order; on a run whose load *)
(* and write succeed, morph.jpg holds the output from the write onwards,   *)
(* so in every state that waits for a key.                                 *)
C10_FixedOrderWriteBeforeWait ==
    /\ IsPrefix(log, StatementOrder)
    /\ pc = "waitKey" => log = SubSeq(StatementOrder, 1, Len(StatementOrder) - 1)
    /\ pc = "exit" => log = StatementOrder
    /\ (pc \in {"imshow", "waitKey", "exit"} /\ imwriteRet = <<TRUE>>) =>
           morphJpg = [rows |-> testPng.rows, cols |-> testPng.cols]

C10_Witness ==
    /\ pc = "waitKey" /\ key = <<>>
    /\ imwriteRet = <<TRUE>> /\ morphJpg # NoFile
    /\ window = morph

====
